---- MODULE Spec2Model ----
(***************************************************************************)
(* State machine of the car rental manager, car_rental.CarRentalSystem:    *)
(* the fleet, the customer roster, the rental list and retention cleanup.  *)
(* Objects are modelled by value; a Rental refers to its Car and Customer  *)
(* by their position in the manager's lists (the lists only grow, so a     *)
(* position is an object identity), and carries an allocation number oid   *)
(* standing for the identity of the Python Rental object.                  *)
(* Time is an integer number of ticks; a day is TicksPerDay ticks.         *)
(***************************************************************************)
EXTENDS Integers, Sequences, FiniteSets, TLC

\* ---------------------------------------------------------------- bounds
MaxCars == 2
MaxCustomers == 1
MaxRentals == 3
MaxTime == 2
TicksPerDay == 1
MaxRetentionDays == 0

\* rental_retention_days as set by the constructor
DefaultRetentionDays == 30

CarIds == {"C001", "C002"}
CustomerIds == {"CUST001", "CUST002"}
DailyRates == {45}
DayCounts == {0, 1}

\* ----------------------------------------------------------------- state
VARIABLES cars, customers, rentals, rental_retention_days, now, nextOid, last

vars == <<cars, customers, rentals, rental_retention_days, now, nextOid, last>>

\* The manager's own fields (everything but the clock and the call record).
state == <<cars, customers, rentals, rental_retention_days>>

None == 0

Range(s) == {s[i] : i \in 1..Len(s)}

\* ------------------------------------------------------- record builders
Car(car_id, daily_rate, available) ==
    [car_id |-> car_id, daily_rate |-> daily_rate, available |-> available]

Customer(customer_id) == [customer_id |-> customer_id]

timedelta(days) == days * TicksPerDay

Rental(oid, rental_id, customer, car, start_date, days, daily_rate) ==
    [oid |-> oid, rental_id |-> rental_id, customer |-> customer, car |-> car,
     start_date |-> start_date, days |-> days,
     end_date |-> start_date + timedelta(days),
     total_cost |-> daily_rate * days,
     returned |-> FALSE]

\* ------------------------------------------- f"R{n:04d}" as a char sequence
DigitChars == <<"0", "1", "2", "3", "4", "5", "6", "7", "8", "9">>

RECURSIVE Digits(_)
Digits(n) == IF n < 10 THEN <<DigitChars[n + 1]>>
             ELSE Digits(n \div 10) \o <<DigitChars[(n % 10) + 1]>>

ZeroPad(s, width) ==
    IF Len(s) >= width THEN s ELSE [i \in 1..(width - Len(s)) |-> "0"] \o s

FormatRentalId(n) == <<"R">> \o ZeroPad(Digits(n), 4)

\* The rental ids a caller may pass to return_car (one more than can exist).
RentalIds == {FormatRentalId(n) : n \in 1..(MaxRentals + 1)}

\* ---------------------------------------------------------------- lookups
\* The position of the first True in a sequence of booleans, None if none:
\* "for x in list: if match(x): return x" followed by "return None".
FirstMatch(hits) ==
    IF \E i \in 1..Len(hits) : hits[i]
    THEN CHOOSE i \in 1..Len(hits) : hits[i] /\ \A j \in 1..(i - 1) : ~hits[j]
    ELSE None

\* Mutant: the scan keeps the last match instead of returning at the first.
find_car_last_match(cs, car_id) ==
    IF \E i \in 1..Len(cs) : cs[i].car_id = car_id
    THEN CHOOSE i \in 1..Len(cs) :
             cs[i].car_id = car_id /\ \A j \in (i + 1)..Len(cs) : cs[j].car_id # car_id
    ELSE None

\* Mutant: an available car of that id is preferred over the first one.
find_car_first_available(cs, car_id) ==
    LET free == FirstMatch([i \in 1..Len(cs) |->
                               cs[i].car_id = car_id /\ cs[i].available])
    IN  IF free # None THEN free
        ELSE FirstMatch([i \in 1..Len(cs) |-> cs[i].car_id = car_id])

find_car(cs, car_id) ==
    FirstMatch([i \in 1..Len(cs) |-> cs[i].car_id = car_id])

find_customer(cus, customer_id) ==
    FirstMatch([i \in 1..Len(cus) |-> cus[i].customer_id = customer_id])

\* Mutant: the filter keeps the cars that are out on rent.
get_rented_cars(cs) == SelectSeq(cs, LAMBDA c : ~c.available)

get_available_cars(cs) == SelectSeq(cs, LAMBDA c : c.available)

\* ------------------------------------------------------------- operations
\* What an operation hands back: the manager's lists after it, and its value.
Outcome(cs, rs, ok, result, removed) ==
    [cars |-> cs, rentals |-> rs, ok |-> ok, result |-> result, removed |-> removed]

\* Mutant: a car whose id is already registered is not added.
add_car_rejecting_duplicates(cs, car) ==
    IF \E i \in 1..Len(cs) : cs[i].car_id = car.car_id THEN cs ELSE Append(cs, car)

add_car(cs, car) == Append(cs, car)

add_customer(cus, customer) == Append(cus, customer)

\* Mutant: the availability test is missing.
rent_car_ignoring_availability(cus, cs, rs, t, oid, customer_id, car_id, days) ==
    LET customer == find_customer(cus, customer_id)
        car == find_car(cs, car_id)
    IN  IF customer = None THEN Outcome(cs, rs, FALSE, <<>>, 0)
        ELSE IF car = None THEN Outcome(cs, rs, FALSE, <<>>, 0)
        ELSE LET rental_id == FormatRentalId(Len(rs) + 1)
                 rental == Rental(oid, rental_id, customer, car, t, days,
                                  cs[car].daily_rate)
             IN  Outcome([cs EXCEPT ![car].available = FALSE],
                         Append(rs, rental), TRUE, <<rental>>, 0)

\* Mutant: the car is marked unavailable before the customer is checked.
rent_car_marking_first(cus, cs, rs, t, oid, customer_id, car_id, days) ==
    LET customer == find_customer(cus, customer_id)
        car == find_car(cs, car_id)
    IN  IF car = None THEN Outcome(cs, rs, FALSE, <<>>, 0)
        ELSE IF ~cs[car].available THEN Outcome(cs, rs, FALSE, <<>>, 0)
        ELSE LET cs1 == [cs EXCEPT ![car].available = FALSE]
             IN  IF customer = None THEN Outcome(cs1, rs, FALSE, <<>>, 0)
                 ELSE LET rental_id == FormatRentalId(Len(rs) + 1)
                          rental == Rental(oid, rental_id, customer, car, t, days,
                                           cs[car].daily_rate)
                      IN  Outcome(cs1, Append(rs, rental), TRUE, <<rental>>, 0)

\* Mutant: the test for an unknown customer is missing, so a rental can be
\* created for no customer.
rent_car_without_customer_check(cus, cs, rs, t, oid, customer_id, car_id, days) ==
    LET customer == find_customer(cus, customer_id)
        car == find_car(cs, car_id)
    IN  IF car = None THEN Outcome(cs, rs, FALSE, <<>>, 0)
        ELSE IF ~cs[car].available THEN Outcome(cs, rs, FALSE, <<>>, 0)
        ELSE LET rental_id == FormatRentalId(Len(rs) + 1)
                 rental == Rental(oid, rental_id, customer, car, t, days,
                                  cs[car].daily_rate)
             IN  Outcome([cs EXCEPT ![car].available = FALSE],
                         Append(rs, rental), TRUE, <<rental>>, 0)

\* rent_car: None (ok = FALSE, result = <<>>) on an unknown customer, an
\* unknown car or an unavailable car; otherwise the new Rental.
rent_car(cus, cs, rs, t, oid, customer_id, car_id, days) ==
    LET customer == find_customer(cus, customer_id)
        car == find_car(cs, car_id)
    IN  IF customer = None THEN Outcome(cs, rs, FALSE, <<>>, 0)
        ELSE IF car = None THEN Outcome(cs, rs, FALSE, <<>>, 0)
        ELSE IF ~cs[car].available THEN Outcome(cs, rs, FALSE, <<>>, 0)
        ELSE LET rental_id == FormatRentalId(Len(rs) + 1)
                 rental == Rental(oid, rental_id, customer, car, t, days,
                                  cs[car].daily_rate)
             IN  Outcome([cs EXCEPT ![car].available = FALSE],
                         Append(rs, rental), TRUE, <<rental>>, 0)

\* Mutant: the boundary is exclusive.
Retained_exclusive(rental, cutoff_date) ==
    ~rental.returned \/ rental.end_date > cutoff_date

\* Mutant: age alone decides, the returned flag is not consulted.
Retained_by_age_only(rental, cutoff_date) ==
    rental.end_date >= cutoff_date

\* The retention test of cleanup_old_rentals.
Retained(rental, cutoff_date) ==
    ~rental.returned \/ rental.end_date >= cutoff_date

\* Mutant: rentals are removed from the list while it is iterated, so the
\* element after each removed one is skipped and kept.
RECURSIVE RemoveWhileIterating(_, _)
RemoveWhileIterating(rs, cutoff_date) ==
    IF rs = <<>> THEN <<>>
    ELSE IF (rs[1].returned /\ rs[1].end_date < cutoff_date)
         THEN IF Len(rs) = 1 THEN <<>>
              ELSE <<rs[2]>> \o RemoveWhileIterating(SubSeq(rs, 3, Len(rs)), cutoff_date)
         ELSE <<rs[1]>> \o RemoveWhileIterating(Tail(rs), cutoff_date)

cleanup_old_rentals_in_place(rs, current_time, retention_days) ==
    LET kept == RemoveWhileIterating(rs, current_time - retention_days * TicksPerDay)
    IN  [rentals |-> kept, removed_count |-> Len(rs) - Len(kept)]

\* Mutant: the kept rentals are rebuilt newest first.
cleanup_old_rentals_newest_first(rs, current_time, retention_days) ==
    IF rs = <<>> THEN [rentals |-> rs, removed_count |-> 0]
    ELSE LET cutoff_date == current_time - timedelta(retention_days)
             kept == SelectSeq(rs, LAMBDA rental : Retained(rental, cutoff_date))
         IN  [rentals |-> [k \in 1..Len(kept) |-> kept[Len(kept) + 1 - k]],
              removed_count |-> Len(rs) - Len(kept)]

cleanup_old_rentals(rs, current_time, retention_days) ==
    IF rs = <<>> THEN [rentals |-> rs, removed_count |-> 0]
    ELSE LET cutoff_date == current_time - timedelta(retention_days)
             initial_count == Len(rs)
             kept == SelectSeq(rs, LAMBDA rental : Retained(rental, cutoff_date))
         IN  [rentals |-> kept, removed_count |-> initial_count - Len(kept)]

\* Mutant: the scan matches on the id alone and frees the car before it
\* looks at the returned flag, so a refused return still frees a car.
return_car_freeing_first(cs, rs, t, retention_days, rental_id) ==
    LET i == FirstMatch([j \in 1..Len(rs) |-> rs[j].rental_id = rental_id])
    IN  IF i = None THEN Outcome(cs, rs, FALSE, <<>>, 0)
        ELSE LET cs1 == [cs EXCEPT ![rs[i].car].available = TRUE]
             IN  IF rs[i].returned THEN Outcome(cs1, rs, FALSE, <<>>, 0)
                 ELSE LET rs1 == [rs EXCEPT ![i].returned = TRUE]
                          cleaned == cleanup_old_rentals(rs1, t, retention_days)
                      IN  Outcome(cs1, cleaned.rentals, TRUE, <<rs1[i]>>,
                                  cleaned.removed_count)

\* Mutant: the return recomputes end_date as the time of the return.
return_car_restamping(cs, rs, t, retention_days, rental_id) ==
    LET i == FirstMatch([j \in 1..Len(rs) |->
                            rs[j].rental_id = rental_id /\ ~rs[j].returned])
    IN  IF i = None THEN Outcome(cs, rs, FALSE, <<>>, 0)
        ELSE LET rs1 == [rs EXCEPT ![i].returned = TRUE, ![i].end_date = t]
                 cs1 == [cs EXCEPT ![rs[i].car].available = TRUE]
                 cleaned == cleanup_old_rentals(rs1, t, retention_days)
             IN  Outcome(cs1, cleaned.rentals, TRUE, <<rs1[i]>>,
                         cleaned.removed_count)

\* Mutant: the call to cleanup_old_rentals is missing.
return_car_without_cleanup(cs, rs, t, retention_days, rental_id) ==
    LET i == FirstMatch([j \in 1..Len(rs) |->
                            rs[j].rental_id = rental_id /\ ~rs[j].returned])
    IN  IF i = None THEN Outcome(cs, rs, FALSE, <<>>, 0)
        ELSE LET rs1 == [rs EXCEPT ![i].returned = TRUE]
                 cs1 == [cs EXCEPT ![rs[i].car].available = TRUE]
             IN  Outcome(cs1, rs1, TRUE, <<rs1[i]>>, 0)

\* Mutant: the scan matches on the id alone and the call flips the returned
\* flag, so a second call on the same id reopens the rental.
return_car_toggling(cs, rs, t, retention_days, rental_id) ==
    LET i == FirstMatch([j \in 1..Len(rs) |-> rs[j].rental_id = rental_id])
    IN  IF i = None THEN Outcome(cs, rs, FALSE, <<>>, 0)
        ELSE LET rs1 == [rs EXCEPT ![i].returned = ~rs[i].returned]
                 cs1 == [cs EXCEPT ![rs[i].car].available = rs1[i].returned]
                 cleaned == cleanup_old_rentals(rs1, t, retention_days)
             IN  Outcome(cs1, cleaned.rentals, TRUE, <<rs1[i]>>,
                         cleaned.removed_count)

\* return_car: the first rental with that id that is not returned yet.
return_car(cs, rs, t, retention_days, rental_id) ==
    LET i == FirstMatch([j \in 1..Len(rs) |->
                            rs[j].rental_id = rental_id /\ ~rs[j].returned])
    IN  IF i = None THEN Outcome(cs, rs, FALSE, <<>>, 0)
        ELSE LET rs1 == [rs EXCEPT ![i].returned = TRUE]
                 cs1 == [cs EXCEPT ![rs[i].car].available = TRUE]
                 cleaned == cleanup_old_rentals(rs1, t, retention_days)
             IN  Outcome(cs1, cleaned.rentals, TRUE, <<rs1[i]>>,
                         cleaned.removed_count)

\* sum(r.total_cost for r in rentals if r.returned)
RECURSIVE SumReturnedCost(_)
SumReturnedCost(rs) ==
    IF rs = <<>> THEN 0
    ELSE (IF rs[1].returned THEN rs[1].total_cost ELSE 0) + SumReturnedCost(Tail(rs))

\* Mutant: the revenue sums every rental, returned or not.
RECURSIVE SumAllCost(_)
SumAllCost(rs) ==
    IF rs = <<>> THEN 0 ELSE rs[1].total_cost + SumAllCost(Tail(rs))

get_rental_summary_all_revenue(cs, cus, rs) ==
    [total_cars |-> Len(cs),
     available_cars |-> Len(get_available_cars(cs)),
     total_customers |-> Len(cus),
     active_rentals |-> Len(SelectSeq(rs, LAMBDA r : ~r.returned)),
     completed_rentals |-> Len(SelectSeq(rs, LAMBDA r : r.returned)),
     total_revenue |-> SumAllCost(rs)]

get_rental_summary(cs, cus, rs) ==
    LET active_rentals == SelectSeq(rs, LAMBDA r : ~r.returned)
        total_revenue == SumReturnedCost(rs)
    IN  [total_cars |-> Len(cs),
         available_cars |-> Len(get_available_cars(cs)),
         total_customers |-> Len(cus),
         active_rentals |-> Len(active_rentals),
         completed_rentals |-> Len(SelectSeq(rs, LAMBDA r : r.returned)),
         total_revenue |-> total_revenue]

\* utils.calculate_inventory_utilization: (rented_cars / total_cars) * 100.
\* The quotient is kept exact as <<numerator, denominator>>; a division by
\* zero raises ZeroDivisionError and no value is returned.
calculate_inventory_utilization(cs) ==
    LET total_cars == Len(cs)
        available_cars == Len(get_available_cars(cs))
        rented_cars == total_cars - available_cars
    IN  IF total_cars = 0
        THEN [raised |-> "ZeroDivisionError", value |-> <<>>]
        ELSE [raised |-> "", value |-> <<rented_cars * 100, total_cars>>]

\* ------------------------------------------------------------ call record
\* The last call made on the manager: its name, arguments and outcome.
Call(op, customer_id, car_id, days, rental_id, ok, result, removed) ==
    [op |-> op, customer_id |-> customer_id, car_id |-> car_id, days |-> days,
     rental_id |-> rental_id, ok |-> ok, result |-> result, removed |-> removed]

NoCall == Call("init", "", "", 0, <<>>, TRUE, <<>>, 0)

\* ---------------------------------------------------------------- actions
Init ==
    /\ cars = <<>>
    /\ customers = <<>>
    /\ rentals = <<>>
    /\ rental_retention_days = DefaultRetentionDays
    /\ now = 0
    /\ nextOid = 1
    /\ last = NoCall

AddCar ==
    \E car_id \in CarIds, daily_rate \in DailyRates, available \in BOOLEAN :
        /\ Len(cars) < MaxCars
        /\ cars' = add_car(cars, Car(car_id, daily_rate, available))
        /\ last' = Call("add_car", "", car_id, 0, <<>>, TRUE, <<>>, 0)
        /\ UNCHANGED <<customers, rentals, rental_retention_days, now, nextOid>>

AddCustomer ==
    \E customer_id \in CustomerIds :
        /\ Len(customers) < MaxCustomers
        /\ customers' = add_customer(customers, Customer(customer_id))
        /\ last' = Call("add_customer", customer_id, "", 0, <<>>, TRUE, <<>>, 0)
        /\ UNCHANGED <<cars, rentals, rental_retention_days, now, nextOid>>

RentCar ==
    \E customer_id \in CustomerIds, car_id \in CarIds, days \in DayCounts :
        LET out == rent_car(customers, cars, rentals, now, nextOid,
                            customer_id, car_id, days)
        IN  /\ out.ok => nextOid <= MaxRentals
            /\ cars' = out.cars
            /\ rentals' = out.rentals
            /\ nextOid' = IF out.ok THEN nextOid + 1 ELSE nextOid
            /\ last' = Call("rent_car", customer_id, car_id, days, <<>>,
                            out.ok, out.result, 0)
            /\ UNCHANGED <<customers, rental_retention_days, now>>

ReturnCar ==
    \E rental_id \in RentalIds :
        LET out == return_car(cars, rentals, now, rental_retention_days, rental_id)
        IN  /\ cars' = out.cars
            /\ rentals' = out.rentals
            /\ last' = Call("return_car", "", "", 0, rental_id,
                            out.ok, out.result, out.removed)
            /\ UNCHANGED <<customers, rental_retention_days, now, nextOid>>

CleanupOldRentals ==
    LET out == cleanup_old_rentals(rentals, now, rental_retention_days)
    IN  /\ rentals' = out.rentals
        /\ last' = Call("cleanup_old_rentals", "", "", 0, <<>>, TRUE, <<>>,
                        out.removed_count)
        /\ UNCHANGED <<cars, customers, rental_retention_days, now, nextOid>>

\* The caller assigns the public attribute rental_retention_days.
SetRetentionDays ==
    \E d \in 0..MaxRetentionDays :
        /\ d # rental_retention_days
        /\ rental_retention_days' = d
        /\ last' = Call("set_retention", "", "", d, <<>>, TRUE, <<>>, 0)
        /\ UNCHANGED <<cars, customers, rentals, now, nextOid>>

\* datetime.now() moves on between calls.
Tick ==
    /\ now < MaxTime
    /\ now' = now + 1
    /\ last' = Call("tick", "", "", 0, <<>>, TRUE, <<>>, 0)
    /\ UNCHANGED <<cars, customers, rentals, rental_retention_days, nextOid>>

\* ----------------------------------------------------------------- queries
\* A lookup hands back the object found: its position in the list, or None.
FindCar ==
    \E car_id \in CarIds :
        LET car == find_car(cars, car_id)
        IN  /\ last' = Call("find_car", "", car_id, 0, <<>>, TRUE,
                            IF car = None THEN <<>> ELSE <<car>>, 0)
            /\ UNCHANGED <<cars, customers, rentals, rental_retention_days, now, nextOid>>

FindCustomer ==
    \E customer_id \in CustomerIds :
        LET customer == find_customer(customers, customer_id)
        IN  /\ last' = Call("find_customer", customer_id, "", 0, <<>>, TRUE,
                            IF customer = None THEN <<>> ELSE <<customer>>, 0)
            /\ UNCHANGED <<cars, customers, rentals, rental_retention_days, now, nextOid>>

GetAvailableCars ==
    /\ last' = Call("get_available_cars", "", "", 0, <<>>, TRUE,
                    get_available_cars(cars), 0)
    /\ UNCHANGED <<cars, customers, rentals, rental_retention_days, now, nextOid>>

\* Mutant: the summary prunes the rental history before it counts.
GetRentalSummaryPruning ==
    LET out == cleanup_old_rentals(rentals, now, rental_retention_days)
    IN  /\ rentals' = out.rentals
        /\ last' = Call("get_rental_summary", "", "", 0, <<>>, TRUE,
                        <<get_rental_summary(cars, customers, out.rentals)>>, 0)
        /\ UNCHANGED <<cars, customers, rental_retention_days, now, nextOid>>

GetRentalSummary ==
    /\ last' = Call("get_rental_summary", "", "", 0, <<>>, TRUE,
                    <<get_rental_summary(cars, customers, rentals)>>, 0)
    /\ UNCHANGED <<cars, customers, rentals, rental_retention_days, now, nextOid>>

CalculateInventoryUtilization ==
    LET out == calculate_inventory_utilization(cars)
    IN  /\ last' = Call("calculate_inventory_utilization", "", "", 0, <<>>,
                        out.raised = "", <<out>>, 0)
        /\ UNCHANGED <<cars, customers, rentals, rental_retention_days, now, nextOid>>

Next ==
    \/ AddCar
    \/ AddCustomer
    \/ RentCar
    \/ ReturnCar
    \/ CleanupOldRentals
    \/ SetRetentionDays
    \/ Tick
    \/ FindCar
    \/ FindCustomer
    \/ GetAvailableCars
    \/ GetRentalSummary
    \/ CalculateInventoryUtilization

Spec == Init /\ [][Next]_vars

\* ================================================================ claims
Indices(s) == 1..Len(s)

\* The un-returned rentals of the car at position i of the fleet.
ActiveRentalsOf(i) == {j \in Indices(rentals) : rentals[j].car = i /\ ~rentals[j].returned}

\* C1: for every registered vehicle, available is false exactly when the
\* rental collection holds an un-returned rental of that vehicle.
AvailableIffNoActiveRental ==
    \A i \in Indices(cars) : (~cars[i].available) <=> (ActiveRentalsOf(i) # {})

\* C2: every vehicle is the subject of at most one un-returned rental.
AtMostOneActiveRental ==
    \A i \in Indices(cars) : Cardinality(ActiveRentalsOf(i)) <= 1

\* C2 witness: a car rented again after an earlier rental of it was returned
\* and kept, while another rental is active too.
RentedAgainAfterReturn ==
    \E j, k \in Indices(rentals) :
        /\ j < k
        /\ rentals[j].car = rentals[k].car
        /\ rentals[j].returned
        /\ ~rentals[k].returned
        /\ last.op = "rent_car" /\ last.ok

\* C3: no two rentals in the collection share a rental id.
RentalIdsUnique ==
    \A j, k \in Indices(rentals) :
        j # k => rentals[j].rental_id # rentals[k].rental_id

\* What the claims mean by an id that resolves, stated on the lists alone.
UnknownCustomer(customer_id) ==
    \A i \in Indices(customers) : customers[i].customer_id # customer_id

UnknownCar(car_id) == \A i \in Indices(cars) : cars[i].car_id # car_id

\* i is the first car registered under car_id.
ResolvesTo(car_id, i) ==
    /\ i \in Indices(cars)
    /\ cars[i].car_id = car_id
    /\ \A j \in 1..(i - 1) : cars[j].car_id # car_id

ResolvesToUnavailable(car_id) ==
    \E i \in Indices(cars) : ResolvesTo(car_id, i) /\ ~cars[i].available

RetentionCutoff == now - rental_retention_days * TicksPerDay

\* C4: rent_car with an unknown customer id, an unknown car id or the id of
\* an unavailable car returns None and leaves the manager's state unchanged.
RentFailureChangesNothing ==
    [][(/\ last'.op = "rent_car"
        /\ \/ UnknownCustomer(last'.customer_id)
           \/ UnknownCar(last'.car_id)
           \/ ResolvesToUnavailable(last'.car_id))
       => (~last'.ok /\ last'.result = <<>> /\ UNCHANGED state)]_vars

\* C4 witness: a known customer was just refused a car that is out on rent.
RefusedUnavailableCar ==
    /\ last.op = "rent_car" /\ ~last.ok
    /\ ~UnknownCustomer(last.customer_id)
    /\ \E i \in Indices(cars) :
          ResolvesTo(last.car_id, i) /\ ~cars[i].available /\ ActiveRentalsOf(i) # {}

\* C5: return_car with a rental id that matches no rental, or that belongs to
\* an already-returned rental, reports failure and changes no state.
ReturnFailureChangesNothing ==
    [][(/\ last'.op = "return_car"
        /\ \/ \A j \in Indices(rentals) : rentals[j].rental_id # last'.rental_id
           \/ \E j \in Indices(rentals) :
                 rentals[j].rental_id = last'.rental_id /\ rentals[j].returned)
       => (~last'.ok /\ UNCHANGED state)]_vars

\* C6: cleanup_old_rentals keeps a rental iff it is un-returned or its
\* end_date >= now - retention, discards the others and returns their number.
CleanupKeepsExactlyRetained ==
    [][last'.op = "cleanup_old_rentals" =>
        LET discarded == {j \in Indices(rentals) :
                             rentals[j].returned /\ rentals[j].end_date < RetentionCutoff}
        IN  /\ \A j \in Indices(rentals) :
                   (rentals[j] \in Range(rentals')) <=> (j \notin discarded)
            /\ Range(rentals') \subseteq Range(rentals)
            /\ Len(rentals') = Len(rentals) - Cardinality(discarded)
            /\ last'.removed = Cardinality(discarded)
            /\ UNCHANGED <<cars, customers, rental_retention_days>>]_vars

\* C6 witness: a cleanup has just discarded a returned rental and kept a
\* returned rental whose end_date is exactly the cutoff.
CleanupKeptBoundary ==
    /\ last.op = "cleanup_old_rentals" /\ last.removed > 0
    /\ \E j \in Indices(rentals) :
          rentals[j].returned /\ rentals[j].end_date = RetentionCutoff

\* C7: right after a cleanup_old_rentals call, with the time and retention
\* unchanged, a second call removes 0 rentals and leaves the collection as it is.
CleanupIdempotent ==
    last.op = "cleanup_old_rentals" =>
        cleanup_old_rentals(rentals, now, rental_retention_days)
            = [rentals |-> rentals, removed_count |-> 0]

\* C7 witness: the first call removed rentals and left some behind.
CleanupRemovedSome ==
    last.op = "cleanup_old_rentals" /\ last.removed > 1 /\ rentals # <<>>

\* The rental object r is the one the step's successful return_car returned.
ReturnedByStep(r) ==
    last'.op = "return_car" /\ last'.ok /\ last'.result[1].oid = r.oid

\* C8: an un-returned rental stays in the collection through every step that
\* does not return it, and a rental leaves only returned and older than the cutoff.
ActiveRentalNeverDiscarded ==
    [][\A r \in Range(rentals) :
          LET gone == \A q \in Range(rentals') : q.oid # r.oid
          IN  /\ (~r.returned /\ ~ReturnedByStep(r)) => ~gone
              /\ gone => /\ r.returned \/ ReturnedByStep(r)
                         /\ r.end_date < RetentionCutoff']_vars

\* C8 witness: a cleanup discarded rentals while an un-returned rental that
\* ended before the cutoff is still there.
OverdueActiveRentalKept ==
    /\ last.op = "cleanup_old_rentals" /\ last.removed > 0
    /\ \E j \in Indices(rentals) :
          ~rentals[j].returned /\ rentals[j].end_date < RetentionCutoff

\* C9: rent_car with a known customer and an available car succeeds: the new
\* rental links them with the requested days, is not returned, is appended to
\* the collection, and the car becomes unavailable.
RentSuccessCreatesRental ==
    [][\A c \in Indices(customers), i \in Indices(cars) :
          (/\ last'.op = "rent_car"
           /\ customers[c].customer_id = last'.customer_id
           /\ \A d \in 1..(c - 1) : customers[d].customer_id # last'.customer_id
           /\ ResolvesTo(last'.car_id, i)
           /\ cars[i].available)
          => /\ last'.ok
             /\ Len(rentals') = Len(rentals) + 1
             /\ SubSeq(rentals', 1, Len(rentals)) = rentals
             /\ last'.result = <<rentals'[Len(rentals')]>>
             /\ LET r == rentals'[Len(rentals')]
                IN  /\ r.customer = c /\ r.car = i
                    /\ r.days = last'.days /\ r.start_date = now
                    /\ ~r.returned
             /\ cars' = [cars EXCEPT ![i].available = FALSE]
             /\ customers' = customers]_vars

\* C9 witness: a successful rental appended behind an earlier one.
RentedSecondCar ==
    /\ last.op = "rent_car" /\ last.ok
    /\ Len(rentals) >= 2
    /\ last.result = <<rentals[Len(rentals)]>>
    /\ ~cars[rentals[Len(rentals)].car].available

\* C10: rent_car with a day count that is zero or negative fails.
NonPositiveDaysRejected ==
    (last.op = "rent_car" /\ last.days <= 0) => ~last.ok

\* Which precondition of rent_car the arguments fail in the current state.
FailedPrecondition(customer_id, car_id) ==
    IF UnknownCustomer(customer_id) THEN "unknown customer"
    ELSE IF UnknownCar(car_id) THEN "unknown car"
    ELSE IF ResolvesToUnavailable(car_id) THEN "unavailable"
    ELSE "none"

\* C11: two failed rent_car calls that fail different preconditions return
\* different values (a failed call leaves the state as it was, so the earlier
\* call's failure is read off the same state).
RentFailuresDistinguished ==
    [][(/\ last.op = "rent_car" /\ ~last.ok
        /\ last'.op = "rent_car" /\ ~last'.ok
        /\ FailedPrecondition(last.customer_id, last.car_id)
             # FailedPrecondition(last'.customer_id, last'.car_id))
       => last'.result # last.result]_vars

\* C12: return_car(id), when the collection holds an un-returned rental r with
\* that id, reports success, sets r.returned and makes r's own car available.
ReturnSuccessFreesOwnCar ==
    [][last'.op = "return_car" =>
        \A j \in Indices(rentals) :
            (rentals[j].rental_id = last'.rental_id /\ ~rentals[j].returned)
            => /\ last'.ok
               /\ last'.result[1].oid = rentals[j].oid
               /\ last'.result[1].returned
               /\ cars'[rentals[j].car].available]_vars

\* C13: after a successful return_car the rental just returned is still in the
\* collection iff its end_date >= now - retention (then with returned set),
\* and no returned rental older than the cutoff remains.
ReturnRunsCleanup ==
    (last.op = "return_car" /\ last.ok) =>
        LET r == last.result[1]
        IN  /\ (\E q \in Range(rentals) : q.oid = r.oid) <=> (r.end_date >= RetentionCutoff)
            /\ \A q \in Range(rentals) : q.oid = r.oid => q.returned
            /\ \A q \in Range(rentals) : ~(q.returned /\ q.end_date < RetentionCutoff)

\* C13 witness: the return kept the recent rental it returned and its cleanup
\* discarded an older returned one.
ReturnDiscardedOlderRental ==
    /\ last.op = "return_car" /\ last.ok /\ last.removed > 0
    /\ \E q \in Range(rentals) : q.oid = last.result[1].oid /\ q.returned

\* C14: every rental has total_cost = its car's daily_rate * days and
\* end_date = start_date + days, and no step changes the total_cost or the
\* end_date of a rental that stays in the collection.
RentalCostAndEndFixed ==
    [][/\ \A q \in Range(rentals') :
              /\ q.total_cost = cars'[q.car].daily_rate * q.days
              /\ q.end_date = q.start_date + q.days * TicksPerDay
       /\ \A r \in Range(rentals), q \in Range(rentals') :
              q.oid = r.oid => (q.total_cost = r.total_cost /\ q.end_date = r.end_date)]_vars

\* C14 witness: a rental of one day, returned at a later time than it was
\* made, sits in the collection with the cost and end it was created with.
PaidRentalReturnedLater ==
    /\ last.op = "return_car" /\ last.ok
    /\ \E q \in Range(rentals) :
          /\ q.oid = last.result[1].oid
          /\ q.days > 0 /\ q.total_cost > 0
          /\ q.start_date < now

\* The sum of total_cost over the rentals at the positions in J.
RECURSIVE CostOver(_)
CostOver(J) ==
    IF J = {} THEN 0
    ELSE LET j == CHOOSE k \in J : TRUE
         IN  rentals[j].total_cost + CostOver(J \ {j})

ReturnedPositions == {j \in Indices(rentals) : rentals[j].returned}

\* C15: get_rental_summary reports the number of cars, of available cars, of
\* customers, of un-returned and of returned rentals in the collection, and
\* the sum of total_cost over the returned rentals only.
SummaryCountsCurrentState ==
    last.op = "get_rental_summary" =>
        last.result[1] =
            [total_cars |-> Len(cars),
             available_cars |-> Cardinality({i \in Indices(cars) : cars[i].available}),
             total_customers |-> Len(customers),
             active_rentals |-> Cardinality(Indices(rentals) \ ReturnedPositions),
             completed_rentals |-> Cardinality(ReturnedPositions),
             total_revenue |-> CostOver(ReturnedPositions)]

\* C15 witness: a summary taken with revenue earned and a paid rental still out.
SummaryWithRevenueAndActive ==
    /\ last.op = "get_rental_summary"
    /\ last.result[1].total_revenue > 0
    /\ \E j \in Indices(rentals) : ~rentals[j].returned /\ rentals[j].total_cost > 0
    /\ last.result[1].available_cars < last.result[1].total_cars

QueryOps == {"get_rental_summary", "find_car", "find_customer", "get_available_cars"}

\* C16: get_rental_summary, find_car, find_customer and get_available_cars
\* leave the car, customer and rental collections, every available flag and
\* every returned flag unchanged.
QueriesArePureReads ==
    [][last'.op \in QueryOps => UNCHANGED <<cars, customers, rentals, rental_retention_days>>]_vars

\* C16 witness: a summary taken while the collection holds a returned rental
\* that a cleanup would discard and a car that is out on rent.
SummaryOverStaleHistory ==
    /\ last.op = "get_rental_summary"
    /\ \E q \in Range(rentals) : q.returned /\ q.end_date < RetentionCutoff
    /\ \E i \in Indices(cars) : ~cars[i].available

\* C17: a utilization computation with zero cars registered returns a result
\* and does not end in an arithmetic fault.
UtilizationNeverFaults ==
    (last.op = "calculate_inventory_utilization" /\ Len(cars) = 0) =>
        (last.ok /\ last.result[1].raised = "")

AvailablePositions == {i \in Indices(cars) : cars[i].available}

\* list is the cars at the positions in J, in insertion order.
ListsInOrder(list, J) ==
    \E f \in [Indices(list) -> Indices(cars)] :
        /\ \A k, l \in Indices(list) : k < l => f[k] < f[l]
        /\ {f[k] : k \in Indices(list)} = J
        /\ \A k \in Indices(list) : list[k] = cars[f[k]]

FleetOnlyGrows ==
    [][/\ Len(cars') >= Len(cars)
       /\ \A i \in Indices(cars) :
              /\ cars'[i].car_id = cars[i].car_id
              /\ cars'[i].daily_rate = cars[i].daily_rate
              /\ cars'[i].available # cars[i].available
                    => (last'.op \in {"rent_car", "return_car"} /\ last'.ok)
       /\ Len(customers') >= Len(customers)
       /\ SubSeq(customers', 1, Len(customers)) = customers]_vars

\* C20 witness: a return was refused while a car is out on rent and the
\* collection holds a returned rental.
RefusedReturnWithCarOut ==
    /\ last.op = "return_car" /\ ~last.ok
    /\ \E j \in Indices(rentals) :
          rentals[j].returned /\ rentals[j].rental_id = last.rental_id
    /\ \E i \in Indices(cars) : ~cars[i].available /\ ActiveRentalsOf(i) # {}

\* The rental object r as it is after the step, if the step kept it.
AfterStep(r) == {q \in Range(rentals') : q.oid = r.oid}

\* C21: a rental starts with returned false, its flag goes from false to true
\* only in the successful return_car that returns it, and never goes back.
ReturnedSetAtMostOnce ==
    [][/\ \A q \in Range(rentals') :
              (\A r \in Range(rentals) : r.oid # q.oid)
                  => (last'.op = "rent_car" /\ last'.ok /\ ~q.returned)
       /\ \A r \in Range(rentals) : \A q \in AfterStep(r) :
              /\ r.returned => q.returned
              /\ (~r.returned /\ q.returned) => ReturnedByStep(r)]_vars

\* C21 witness: a returned rental is still in the collection, still returned,
\* after its car was rented out again under a new rental.
ReturnedStayedReturned ==
    /\ last.op = "rent_car" /\ last.ok
    /\ \E j \in Indices(rentals) :
          /\ rentals[j].returned
          /\ rentals[j].car = last.result[1].car
          /\ rentals[j].oid # last.result[1].oid

\* The positions of the cars whose available flag the step changes.
CarsToggled == {i \in Indices(cars) : cars'[i].available # cars[i].available}

\* C24: a successful rent_car or return_car changes the available flag of
\* exactly one car, the rental's, and leaves every other rental as it was;
\* cleanup_old_rentals (called directly or by return_car) keeps the retained
\* rentals in their original order with all their fields unchanged.
RentReturnCleanupFrame ==
    [][/\ (last'.op \in {"rent_car", "return_car"} /\ last'.ok) =>
              /\ Len(cars') = Len(cars)
              /\ CarsToggled = {last'.result[1].car}
              /\ \A r \in Range(rentals) :
                     r.oid # last'.result[1].oid
                        => \A q \in AfterStep(r) : q = r
              /\ SelectSeq(rentals', LAMBDA q : q.oid # last'.result[1].oid)
                    = SelectSeq(rentals, LAMBDA r :
                          r.oid # last'.result[1].oid /\ AfterStep(r) # {})
       /\ last'.op = "cleanup_old_rentals" =>
              rentals' = SelectSeq(rentals, LAMBDA r : r \in Range(rentals'))]_vars

\* C24 witness: a cleanup discarded a rental and kept two others.
CleanupKeptTwo ==
    /\ last.op = "cleanup_old_rentals" /\ last.removed >= 1
    /\ Len(rentals) >= 2
    /\ rentals[1].oid # rentals[2].oid

\* i is the first customer registered under customer_id.
ResolvesToCustomer(customer_id, i) ==
    /\ i \in Indices(customers)
    /\ customers[i].customer_id = customer_id
    /\ \A j \in 1..(i - 1) : customers[j].customer_id # customer_id

\* C25: every rental in the collection references a car in cars and a
\* customer in customers, the ones find_car and find_customer resolve for
\* their ids (the first registered under each id).
RentalsReferenceRegistered ==
    \A j \in Indices(rentals) :
        /\ rentals[j].car \in Indices(cars)
        /\ ResolvesTo(cars[rentals[j].car].car_id, rentals[j].car)
        /\ find_car(cars, cars[rentals[j].car].car_id) = rentals[j].car
        /\ rentals[j].customer \in Indices(customers)
        /\ ResolvesToCustomer(customers[rentals[j].customer].customer_id,
                              rentals[j].customer)
        /\ find_customer(customers, customers[rentals[j].customer].customer_id)
              = rentals[j].customer

\* C25 witness: a rental of the first car still stands after a second car was
\* registered under the same id.
RentalKeptAcrossDuplicateAdd ==
    /\ last.op = "add_car"
    /\ Len(cars) = 2 /\ cars[1].car_id = cars[2].car_id
    /\ \E j \in Indices(rentals) : rentals[j].car = 1 /\ rentals[j].returned
    /\ \E j \in Indices(rentals) : rentals[j].car = 1 /\ ~rentals[j].returned

\* Car i was registered under an id that an earlier car already has.
LaterDuplicate(i) == \E j \in 1..(i - 1) : cars[j].car_id = cars[i].car_id

\* C26: a car registered under an id already in use is never the car of a
\* rental and its available flag never changes, and rent_car with that id
\* fails while the first car of the id is out on rent, even if a later car
\* of the id is available.
DuplicateCarNeverRented ==
    [][/\ \A i \in Indices(cars) :
              LaterDuplicate(i) =>
                  /\ cars'[i].available = cars[i].available
                  /\ \A j \in Indices(rentals) : rentals[j].car # i
                  /\ \A j \in Indices(rentals') : rentals'[j].car # i
       /\ (/\ last'.op = "rent_car"
           /\ \E i \in Indices(cars) :
                 /\ ResolvesTo(last'.car_id, i)
                 /\ ActiveRentalsOf(i) # {}
                 /\ \E k \in Indices(cars) : k # i /\ cars[k].car_id = cars[i].car_id)
             => (~last'.ok /\ UNCHANGED state)]_vars

\* C26 witness: a known customer was refused an id whose first car is out on
\* rent while the second car of that id is available and in no rental.
RefusedWhileDuplicateFree ==
    /\ last.op = "rent_car" /\ ~last.ok
    /\ ~UnknownCustomer(last.customer_id)
    /\ Len(cars) = 2
    /\ cars[1].car_id = last.car_id /\ cars[2].car_id = last.car_id
    /\ ActiveRentalsOf(1) # {}
    /\ cars[2].available
    /\ \A j \in Indices(rentals) : rentals[j].car # 2

\* C23: when a successful return_car is followed at once by a return_car with
\* the same rental id, the second call fails and changes no state.
SecondReturnFails ==
    [][(/\ last.op = "return_car" /\ last.ok
        /\ last'.op = "return_car" /\ last'.rental_id = last.rental_id)
          => (~last'.ok /\ UNCHANGED state)]_vars

\* ------------------------------------------------- basic_rental.py (model)
\* basic_rental.CarRentalSystem keeps the same three lists, cars, customers
\* and rentals; a rental is the pair {"customer": customer, "car": car}.
\* make, model and name are only printed and are left out.
BasicCar(car_id, available) == [car_id |-> car_id, available |-> available]

BasicCustomer(customer_id) == [customer_id |-> customer_id]

\* next((c for c in items if <hit>), None)
basic_next(hits) == FirstMatch(hits)

basic_add_car(cs, car) == Append(cs, car)

basic_add_customer(cus, customer) == Append(cus, customer)

\* Mutant: the scan for the car also asks for availability, so a later
\* available car of the same id is rented when the first one is out.
basic_rent_car_any_available(cus, cs, rs, customer_id, car_id) ==
    LET customer == basic_next([i \in 1..Len(cus) |->
                                   cus[i].customer_id = customer_id])
        car == basic_next([i \in 1..Len(cs) |->
                              cs[i].car_id = car_id /\ cs[i].available])
    IN  IF customer = None \/ car = None
        THEN [cars |-> cs, rentals |-> rs, result |-> FALSE]
        ELSE [cars |-> [cs EXCEPT ![car].available = FALSE],
              rentals |-> Append(rs, [customer |-> customer, car |-> car]),
              result |-> TRUE]

basic_rent_car(cus, cs, rs, customer_id, car_id) ==
    LET customer == basic_next([i \in 1..Len(cus) |->
                                   cus[i].customer_id = customer_id])
        car == basic_next([i \in 1..Len(cs) |-> cs[i].car_id = car_id])
    IN  IF customer = None \/ car = None \/ ~cs[car].available
        THEN [cars |-> cs, rentals |-> rs, result |-> FALSE]
        ELSE LET rental == [customer |-> customer, car |-> car]
             IN  [cars |-> [cs EXCEPT ![car].available = FALSE],
                  rentals |-> Append(rs, rental),
                  result |-> TRUE]

basic_list_available_cars(cs) == SelectSeq(cs, LAMBDA car : car.available)

\* The basic system has no retention period, clock or rental ids: those
\* variables stay at None throughout.
BasicInit ==
    /\ cars = <<>>
    /\ customers = <<>>
    /\ rentals = <<>>
    /\ rental_retention_days = None
    /\ now = None
    /\ nextOid = None
    /\ last = NoCall

BasicAddCar ==
    \E car_id \in CarIds, available \in BOOLEAN :
        /\ Len(cars) < MaxCars
        /\ cars' = basic_add_car(cars, BasicCar(car_id, available))
        /\ last' = Call("add_car", "", car_id, 0, <<>>, TRUE, <<>>, 0)
        /\ UNCHANGED <<customers, rentals, rental_retention_days, now, nextOid>>

BasicAddCustomer ==
    \E customer_id \in CustomerIds :
        /\ Len(customers) < MaxCustomers
        /\ customers' = basic_add_customer(customers, BasicCustomer(customer_id))
        /\ last' = Call("add_customer", customer_id, "", 0, <<>>, TRUE, <<>>, 0)
        /\ UNCHANGED <<cars, rentals, rental_retention_days, now, nextOid>>

BasicRentCar ==
    \E customer_id \in CustomerIds, car_id \in CarIds :
        LET out == basic_rent_car(customers, cars, rentals, customer_id, car_id)
        IN  /\ cars' = out.cars
            /\ rentals' = out.rentals
            /\ last' = Call("rent_car", customer_id, car_id, 0, <<>>,
                            out.result, <<>>, 0)
            /\ UNCHANGED <<customers, rental_retention_days, now, nextOid>>

BasicListAvailableCars ==
    /\ last' = Call("list_available_cars", "", "", 0, <<>>, TRUE,
                    basic_list_available_cars(cars), 0)
    /\ UNCHANGED <<cars, customers, rentals, rental_retention_days, now, nextOid>>

BasicNext ==
    \/ BasicAddCar
    \/ BasicAddCustomer
    \/ BasicRentCar
    \/ BasicListAvailableCars

SpecBasic == BasicInit /\ [][BasicNext]_vars

\* ------------------------------------------------ basic_rental.py (claims)
\* C22: basic rent_car returns True exactly when the customer id is registered,
\* the car id is registered and the first car of that id is available; on True
\* that car alone becomes unavailable and rentals grows by one rental of that
\* customer and car; on False rentals and cars are unchanged.
BasicRentCarContract ==
    [][last'.op = "rent_car" =>
          LET eligible ==
                  /\ ~UnknownCustomer(last'.customer_id)
                  /\ \E i \in Indices(cars) :
                        ResolvesTo(last'.car_id, i) /\ cars[i].available
          IN  /\ last'.ok <=> eligible
              /\ last'.ok =>
                    /\ \A i \in Indices(cars) :
                          cars'[i] = IF ResolvesTo(last'.car_id, i)
                                     THEN [cars[i] EXCEPT !.available = FALSE]
                                     ELSE cars[i]
                    /\ Len(rentals') = Len(rentals) + 1
                    /\ SubSeq(rentals', 1, Len(rentals)) = rentals
                    /\ ResolvesTo(last'.car_id, rentals'[Len(rentals')].car)
              /\ ~last'.ok => (rentals' = rentals /\ cars' = cars)]_vars

\* C22 witness: a basic rent_car was refused for a car id whose first car is
\* out on rent while a later car of the same id is available.
BasicRefusedWithDuplicateFree ==
    /\ rental_retention_days = None
    /\ last.op = "rent_car" /\ ~last.ok
    /\ Len(rentals) = 1 /\ rentals[1].car = 1
    /\ Len(cars) = 2 /\ cars[1].car_id = last.car_id
    /\ cars[2].car_id = last.car_id /\ cars[2].available
    /\ ~UnknownCustomer(last.customer_id)

====
